---- MODULE Spec2Model ----
(***************************************************************************)
(* The network-interface counter registry of sysinfo: the routing-socket   *)
(* backend (src/apple/network.rs) and the table-API backend                *)
(* (src/windows/network.rs).  Each backend owns a registry                 *)
(* interfaces : name -> NetworkData; refresh_networks_list is the full     *)
(* rescan and refresh the counters-only refresh.  The loops of both        *)
(* operations are modelled one iteration per step; pc = "done" is the      *)
(* return point of an operation, where its locals are still alive, and     *)
(* Return hands control back to the caller (pc = "idle").                  *)
(*                                                                         *)
(* Offsets are 0-based as in the code; the sequences buf and table are     *)
(* 1-based, so the cell at offset o is buf[o + 1] and row i is             *)
(* table[i + 1].  Interface names are sequences of code points.            *)
(***************************************************************************)
EXTENDS Integers, Sequences, FiniteSets, TLC

\* ---------------------------------------------------------------- bounds
\* Width of a counter in bits: u64 in the code, scaled down.
CounterBits == 3
\* Most records in one routing-socket buffer.
MaxRecs == 2
\* Most rows in one interface table.
MaxRows == 3

U64Mod == 2 ^ CounterBits
U64Max == U64Mod - 1

\* ------------------------------------------------- constants of the code
RTM_IFINFO2 == 18
\* Any other record type of the stream.
OtherType == RTM_IFINFO2 + 1
MediaConnectStateDisconnected == 2
MediaConnectStateConnected == MediaConnectStateDisconnected - 1

\* ------------------------------------------------------- counter rotation
\* macro old_and_new: $ty_.$old = $ty_.$name; $ty_.$name = $new_val
old_and_new(ty_, name, old, new_val) ==
    [ty_ EXCEPT ![old] = ty_[name], ![name] = new_val]

\* u64::saturating_sub
wrapping_sub(a, b) == (a - b) % U64Mod
saturating_sub(a, b) == IF a >= b THEN a - b ELSE 0

\* impl NetworkExt for NetworkData (the same on both backends)
get_received(d) == saturating_sub(d.current_in, d.old_in)
get_total_received(d) == d.current_in
get_transmitted(d) == saturating_sub(d.current_out, d.old_out)
get_total_transmitted(d) == d.current_out
get_packets_received(d) == saturating_sub(d.packets_in, d.old_packets_in)
get_total_packets_received(d) == d.packets_in
get_packets_transmitted(d) == saturating_sub(d.packets_out, d.old_packets_out)
get_total_packets_transmitted(d) == d.packets_out
get_errors_on_received(d) == saturating_sub(d.errors_in, d.old_errors_in)
get_total_errors_on_received(d) == d.errors_in
get_errors_on_transmitted(d) == saturating_sub(d.errors_out, d.old_errors_out)
get_total_errors_on_transmitted(d) == d.errors_out

\* The six (delta, total) pairs of an entry, and the six counters a scan
\* stored for it, in one fixed order.
Deltas(d) ==
    << get_received(d), get_transmitted(d), get_packets_received(d),
       get_packets_transmitted(d), get_errors_on_received(d),
       get_errors_on_transmitted(d) >>
Totals(d) ==
    << get_total_received(d), get_total_transmitted(d),
       get_total_packets_received(d), get_total_packets_transmitted(d),
       get_total_errors_on_received(d), get_total_errors_on_transmitted(d) >>
Current(d) ==
    << d.current_in, d.current_out, d.packets_in, d.packets_out,
       d.errors_in, d.errors_out >>
Previous(d) ==
    << d.old_in, d.old_out, d.old_packets_in, d.old_packets_out,
       d.old_errors_in, d.old_errors_out >>

\* ------------------------------------------------------------- registry
\* HashMap<String, NetworkData> as a function on the registered names.
EmptyMap == [n \in {} |-> 0]
MapPut(m, k, v) == [n \in (DOMAIN m) \cup {k} |-> IF n = k THEN v ELSE m[n]]

\* for (_, data) in self.interfaces.iter_mut() { data.updated = false; }
ClearKeepsMarkers(reg) == reg
ClearMarkers(reg) == [n \in DOMAIN reg |-> [reg[n] EXCEPT !.updated = FALSE]]

\* self.interfaces.retain(|_, data| data.updated)
RetainAll(reg) == reg
Retain(reg) ==
    [n \in {m \in DOMAIN reg : reg[m].updated} |-> reg[n]]

\* ============================================================ backend A
\* ifm_data of a record (if_data64): the six counters the scan reads.
Data(ib, ob, ip, op_, ie, oe) ==
    [ifi_ibytes |-> ib, ifi_obytes |-> ob, ifi_ipackets |-> ip,
     ifi_opackets |-> op_, ifi_ierrors |-> ie, ifi_oerrors |-> oe]

\* What the kernel can report in ifm_data.
DataSamples ==
    << Data(1, 2, 3, 4, 5, 6), Data(4, 1, U64Max, 0, 5, U64Max - 1) >>

\* A buffer is a sequence of cells.  A record at offset o keeps ifm_msglen
\* in cell o, ifm_type in cell o + 1, ifm_index in cell o + 2 and ifm_data
\* in cell o + 3; a data cell holds the number of a DataSamples entry.
OffMsglen == 0
OffType == 1
OffIndex == 2
OffData == 3
Msghdr2Cells == 4

DataOf(v) == DataSamples[(v % Len(DataSamples)) + 1]

\* if_indextoname: the names the platform knows, by interface index.
IfNames == [i \in {1, 2} |-> IF i = 1 THEN << 101 >> ELSE << 108, 111, 48 >>]
\* NULL, which is no name.
NullName == << -1 >>

\* Records as the kernel writes them, and records with a corrupt declared
\* length or cut short.
InfoRecord(m, i, d) == << m, RTM_IFINFO2, i, d >>
KernelRecords ==
    { InfoRecord(Msghdr2Cells, i, d) : i \in {1, 2}, d \in {0, 1} }
      \cup { << 2, OtherType >> }
CorruptRecords ==
    { InfoRecord(0, 1, 1), InfoRecord(7, 2, 0), InfoRecord(2, 1, 0),
      << Msghdr2Cells, RTM_IFINFO2 >>, << Msghdr2Cells >> }
RecordShapes == KernelRecords \cup CorruptRecords

RECURSIVE Concat(_)
Concat(rs) == IF rs = << >> THEN << >> ELSE Head(rs) \o Concat(Tail(rs))

SeqsUpTo(S, n) == UNION { [1..k -> S] : k \in 0..n }

\* The contents sysctl(NET_RT_IFLIST2) can leave in buf, and those among
\* them made of whole, well-formed records only.
Buffers == { Concat(rs) : rs \in SeqsUpTo(RecordShapes, MaxRecs) }
KernelBuffers == { Concat(rs) : rs \in SeqsUpTo(KernelRecords, MaxRecs) }

\* What a read past the end of the buffer may find there.
Wild == {0, 1, RTM_IFINFO2}

\* ============================================================ backend B
\* InterfaceGuid; the grouping key leaves Data1 out.
Guid(d1, k) ==
    [Data1 |-> d1, Data2 |-> k, Data3 |-> 0,
     Data4 |-> << 0, 0, 0, 0, 0, 0, 0, k >>]

\* The counters of a MIB_IF_ROW2.
Stats(io, oo, iu, inu, ou, onu, ie, oe) ==
    [InOctets |-> io, OutOctets |-> oo, InUcastPkts |-> iu,
     InNUcastPkts |-> inu, OutUcastPkts |-> ou, OutNUcastPkts |-> onu,
     InErrors |-> ie, OutErrors |-> oe]

\* What the kernel can report as the counters of an interface; the sums of
\* the last one exceed the counter width.
StatsSamples ==
    { Stats(1, 2, 1, 2, 3, 1, 5, 6),
      Stats(4, 1, 0, 1, U64Max - 1, 1, 5, 0),
      Stats(2, 2, U64Max, 1, 2, U64Max, 0, 1) }

Row(tx, rx, st, pal, guid, alias, luid, c) ==
    [TransmitLinkSpeed |-> tx, ReceiveLinkSpeed |-> rx,
     MediaConnectState |-> st, PhysicalAddressLength |-> pal,
     InterfaceGuid |-> guid, Alias |-> alias, InterfaceLuid |-> luid,
     InOctets |-> c.InOctets, OutOctets |-> c.OutOctets,
     InUcastPkts |-> c.InUcastPkts, InNUcastPkts |-> c.InNUcastPkts,
     OutUcastPkts |-> c.OutUcastPkts, OutNUcastPkts |-> c.OutNUcastPkts,
     InErrors |-> c.InErrors, OutErrors |-> c.OutErrors]

\* Alias buffers (u16 units, fixed width): "e", "e" with stale units after
\* the terminator, "lo0" filling the buffer, and a lone surrogate.
AliasE == << 101, 0, 0 >>
AliasEStale == << 101, 0, 111 >>
AliasLo0 == << 108, 111, 48 >>
AliasBad == << 55296, 101, 0 >>

\* Rows the kernel can report.  Rows with the same InterfaceLuid are states
\* of one interface.
RowSamples ==
    { Row(1, 1, MediaConnectStateConnected, 6, Guid(1, 1), AliasE, 1,
          Stats(1, 2, 1, 2, 3, 1, 5, 6)),
      Row(1, 1, MediaConnectStateConnected, 6, Guid(2, 1), AliasLo0, 2,
          Stats(4, 1, 0, 1, U64Max - 1, 1, 5, 0)),
      Row(0, 0, MediaConnectStateConnected, 6, Guid(2, 1), AliasLo0, 2,
          Stats(1, 2, 1, 2, 3, 1, 5, 6)),
      Row(0, 1, MediaConnectStateConnected, 6, Guid(3, 2), AliasEStale, 3,
          Stats(4, 1, 0, 1, U64Max - 1, 1, 5, 0)),
      Row(1, 1, MediaConnectStateDisconnected, 6, Guid(3, 2), AliasE, 3,
          Stats(1, 2, 1, 2, 3, 1, 5, 6)),
      Row(1, 1, MediaConnectStateConnected, 0, Guid(4, 3), AliasLo0, 4,
          Stats(4, 1, 0, 1, U64Max - 1, 1, 5, 0)),
      Row(1, 0, MediaConnectStateConnected, 6, Guid(4, 3), AliasBad, 4,
          Stats(1, 2, 1, 2, 3, 1, 5, 6)),
      Row(1, 1, MediaConnectStateConnected, 6, Guid(4, 3), AliasLo0, 4,
          Stats(2, 2, U64Max, 1, 2, U64Max, 0, 1)) }

\* The tables GetIfTable2 can return: one row per interface.
Tables ==
    { t \in SeqsUpTo(RowSamples, MaxRows) :
        \A i, j \in 1..Len(t) :
            i # j => t[i].InterfaceLuid # t[j].InterfaceLuid }

\* The filter of the first loop.
RowExcludedNoAddressTest(ptr) ==
    \/ (ptr.TransmitLinkSpeed = 0 /\ ptr.ReceiveLinkSpeed = 0)
    \/ ptr.MediaConnectState = MediaConnectStateDisconnected
RowExcluded(ptr) ==
    \/ (ptr.TransmitLinkSpeed = 0 /\ ptr.ReceiveLinkSpeed = 0)
    \/ ptr.MediaConnectState = MediaConnectStateDisconnected
    \/ ptr.PhysicalAddressLength = 0

\* let id = vec![Data2, Data3, Data4[0], ..., Data4[7]]
GroupId(ptr) ==
    << ptr.InterfaceGuid.Data2, ptr.InterfaceGuid.Data3 >>
        \o ptr.InterfaceGuid.Data4

\* *groups.get(&id).unwrap_or(&0)
GroupCount(g, id) == IF id \in DOMAIN g THEN g[id] ELSE 0

\* The first loop over the rows i .. NumEntries - 1, from groups g and
\* indexes ix (rows are numbered from 0 as in the code).
RECURSIVE Pass1(_, _, _, _)
Pass1(t, i, g, ix) ==
    IF i >= Len(t)
    THEN [groups |-> g, indexes |-> ix]
    ELSE LET ptr == t[i + 1]
             id == GroupId(ptr)
             entry == GroupCount(g, id) + 1
         IN  IF RowExcluded(ptr)
             THEN Pass1(t, i + 1, g, ix)
             ELSE IF entry > 1
                  THEN Pass1(t, i + 1, MapPut(g, id, entry), ix)
                  ELSE Pass1(t, i + 1, MapPut(g, id, entry),
                             Append(ix, << i, id >>))

\* The second loop's test of the group count.
InSharedGroupNever(g, id) == FALSE
InSharedGroup(g, id) == GroupCount(g, id) > 1

\* The position of the first 0 in the Alias buffer, or its width.
RECURSIVE AliasPos(_)
AliasPos(alias) ==
    IF alias = << >> \/ Head(alias) = 0 THEN 0 ELSE 1 + AliasPos(Tail(alias))

\* String::from_utf16: the code points of the units, or an error when a
\* surrogate is not part of a high/low pair.
RECURSIVE from_utf16(_)
from_utf16(u) ==
    IF u = << >>
    THEN [ok |-> TRUE, s |-> << >>]
    ELSE LET h == Head(u) IN
         IF h < 55296 \/ h > 57343
         THEN LET r == from_utf16(Tail(u))
              IN  IF r.ok THEN [ok |-> TRUE, s |-> << h >> \o r.s] ELSE r
         ELSE IF h <= 56319 /\ Len(u) >= 2 /\ u[2] >= 56320 /\ u[2] <= 57343
              THEN LET r == from_utf16(Tail(Tail(u)))
                       cp == 65536 + (h - 55296) * 1024 + (u[2] - 56320)
                   IN  IF r.ok THEN [ok |-> TRUE, s |-> << cp >> \o r.s] ELSE r
              ELSE [ok |-> FALSE, s |-> << >>]

\* u64 + u64: the sum a build without overflow checks stores, and whether
\* a build with overflow checks panics instead.
wrapping_add(a, b) == (a + b) % U64Mod
Overflows(a, b) == a + b > U64Max

\* The six counters the code stores for a row, in the order of Current.
CountersB(ptr) ==
    << ptr.InOctets, ptr.OutOctets,
       wrapping_add(ptr.InUcastPkts, ptr.InNUcastPkts),
       wrapping_add(ptr.OutUcastPkts, ptr.OutNUcastPkts),
       ptr.InErrors, ptr.OutErrors >>

\* The rotation of an entry from a row (rescan: Occupied; refresh: lookup
\* succeeded), without the marker.
RotateB(e, ptr) ==
    LET e1 == old_and_new(e, "current_out", "old_out", ptr.OutOctets)
        e2 == old_and_new(e1, "current_in", "old_in", ptr.InOctets)
        e3 == old_and_new(e2, "packets_in", "old_packets_in",
                          wrapping_add(ptr.InUcastPkts, ptr.InNUcastPkts))
        e4 == old_and_new(e3, "packets_out", "old_packets_out",
                          wrapping_add(ptr.OutUcastPkts, ptr.OutNUcastPkts))
        e5 == old_and_new(e4, "errors_in", "old_errors_in", ptr.InErrors)
    IN  old_and_new(e5, "errors_out", "old_errors_out", ptr.OutErrors)

\* The entry as a panic of one of the two additions leaves it.
RotateBPanicked(e, ptr) ==
    LET e1 == old_and_new(e, "current_out", "old_out", ptr.OutOctets)
        e2 == old_and_new(e1, "current_in", "old_in", ptr.InOctets)
        e3 == old_and_new(e2, "packets_in", "old_packets_in",
                          wrapping_add(ptr.InUcastPkts, ptr.InNUcastPkts))
    IN  IF Overflows(ptr.InUcastPkts, ptr.InNUcastPkts) THEN e2 ELSE e3

RowOverflows(ptr) ==
    \/ Overflows(ptr.InUcastPkts, ptr.InNUcastPkts)
    \/ Overflows(ptr.OutUcastPkts, ptr.OutNUcastPkts)

\* hash_map::Entry::Occupied
UpdateBTakesHandle(e, ptr) ==
    [RotateB(e, ptr) EXCEPT !.updated = TRUE, !.id = ptr.InterfaceLuid]
UpdateB(e, ptr) == [RotateB(e, ptr) EXCEPT !.updated = TRUE]

\* hash_map::Entry::Vacant
InsertB(ptr) ==
    LET packets_in == wrapping_add(ptr.InUcastPkts, ptr.InNUcastPkts)
        packets_out == wrapping_add(ptr.OutUcastPkts, ptr.OutNUcastPkts)
    IN  [id |-> ptr.InterfaceLuid,
         current_out |-> ptr.OutOctets, old_out |-> ptr.OutOctets,
         current_in |-> ptr.InOctets, old_in |-> ptr.InOctets,
         packets_in |-> packets_in, old_packets_in |-> packets_in,
         packets_out |-> packets_out, old_packets_out |-> packets_out,
         errors_in |-> ptr.InErrors, old_errors_in |-> ptr.InErrors,
         errors_out |-> ptr.OutErrors, old_errors_out |-> ptr.OutErrors,
         updated |-> TRUE]

\* ================================================================ state
VARIABLES
    backend,        \* "A" (routing socket) or "B" (table API): the build
    pc,             \* "idle", the position inside an operation, "done"
    op,             \* the operation in progress: "rescan" or "refresh"
    interfaces,     \* Networks.interfaces
    buf,            \* A: the buffer sysctl filled (len = Len(buf))
    next,           \* A: the cursor of the walk, an offset into buf
    table,          \* B: the rows of the table GetIfTable2 returned
    groups,         \* B: grouping key -> number of rows counted
    indexes,        \* B: the rows pass 1 kept, as << i, id >>
    ipos,           \* B: position of pass 2 in indexes
    todo,           \* B: entries refresh has not visited yet
    freed,          \* B: FreeMibTable calls of this operation
    fetch,          \* how the kernel query of this operation ended
    pre,            \* interfaces when the operation was called
    latest,         \* name -> counters last stored for it by this operation
    last,           \* what the last loop iteration did
    oob,            \* A: this walk read a cell at an offset >= len
    rows_committed, \* B: rows of table this scan inserted or updated from
    corrupt_seen,   \* A: some buffer so far was not in KernelBuffers
    answers,        \* A: offset of a record |-> what this scan made of it
    first,          \* the scan before this one, when this one repeats it
    entry           \* B: refresh's MIB_IF_ROW2 as GetIfEntry2 last filled it

vars ==
    << backend, pc, op, interfaces, buf, next, table, groups, indexes, ipos,
       todo, freed, fetch, pre, latest, last, oob, rows_committed,
       corrupt_seen, answers, first, entry >>

localsA == << buf, next, oob, answers >>
localsB ==
    << table, groups, indexes, ipos, todo, freed, rows_committed, entry >>

NoEvent ==
    [kind |-> "none", name |-> NullName, c |-> << >>, before |-> << >>,
     at |-> 0, msglen |-> 0]
Event(k, n, c, b, a, m) ==
    [kind |-> k, name |-> n, c |-> c, before |-> b, at |-> a, msglen |-> m]
NoEntry == Stats(0, 0, 0, 0, 0, 0, 0, 0)
NoFirst == [again |-> FALSE, answers |-> EmptyMap]

\* ------------------------------------------------- backend A operations
\* The six counters of a record in the order of Current.
CountersA(data) ==
    << data.ifi_ibytes, data.ifi_obytes, data.ifi_ipackets,
       data.ifi_opackets, data.ifi_ierrors, data.ifi_oerrors >>

\* hash_map::Entry::Occupied
UpdateA(e, data) ==
    LET e1 == old_and_new(e, "current_out", "old_out", data.ifi_obytes)
        e2 == old_and_new(e1, "current_in", "old_in", data.ifi_ibytes)
        e3 == old_and_new(e2, "packets_in", "old_packets_in", data.ifi_ipackets)
        e4 == old_and_new(e3, "packets_out", "old_packets_out", data.ifi_opackets)
        e5 == old_and_new(e4, "errors_in", "old_errors_in", data.ifi_ierrors)
        e6 == old_and_new(e5, "errors_out", "old_errors_out", data.ifi_oerrors)
    IN  [e6 EXCEPT !.updated = TRUE]

\* hash_map::Entry::Vacant
InsertAOldZero(data) ==
    [current_in |-> data.ifi_ibytes, old_in |-> 0,
     current_out |-> data.ifi_obytes, old_out |-> 0,
     packets_in |-> data.ifi_ipackets, old_packets_in |-> 0,
     packets_out |-> data.ifi_opackets, old_packets_out |-> 0,
     errors_in |-> data.ifi_ierrors, old_errors_in |-> 0,
     errors_out |-> data.ifi_oerrors, old_errors_out |-> 0,
     updated |-> TRUE]
InsertANotMarked(data) ==
    [InsertAOldZero(data) EXCEPT
        !.old_in = data.ifi_ibytes, !.old_out = data.ifi_obytes,
        !.old_packets_in = data.ifi_ipackets,
        !.old_packets_out = data.ifi_opackets,
        !.old_errors_in = data.ifi_ierrors,
        !.old_errors_out = data.ifi_oerrors,
        !.updated = FALSE]
InsertA(data) ==
    [current_in |-> data.ifi_ibytes, old_in |-> data.ifi_ibytes,
     current_out |-> data.ifi_obytes, old_out |-> data.ifi_obytes,
     packets_in |-> data.ifi_ipackets, old_packets_in |-> data.ifi_ipackets,
     packets_out |-> data.ifi_opackets, old_packets_out |-> data.ifi_opackets,
     errors_in |-> data.ifi_ierrors, old_errors_in |-> data.ifi_ierrors,
     errors_out |-> data.ifi_oerrors, old_errors_out |-> data.ifi_oerrors,
     updated |-> TRUE]

\* The values a read of the cell at offset o can produce.
ReadCell(o) == IF o < Len(buf) THEN {buf[o + 1]} ELSE Wild

\* if_indextoname(idx): the name, or NULL when the index is unknown or the
\* interface is gone by the time of the call.
if_indextoname(idx) ==
    {NullName} \cup (IF idx \in DOMAIN IfNames THEN {IfNames[idx]} ELSE {})

\* refresh_networks_list up to the call of update_networks, refresh likewise,
\* and update_networks up to the loop: the two sysctl calls.
BeginA(o) ==
    /\ backend = "A"
    /\ pc = "idle"
    /\ op' = o
    /\ pre' = interfaces
    /\ interfaces' = IF o = "rescan" THEN ClearMarkers(interfaces) ELSE interfaces
    /\ \/ /\ fetch' \in {"probe_failed", "fill_failed"}
          /\ buf' = << >>
       \/ /\ fetch' = "ok"
          /\ buf' \in Buffers
    /\ corrupt_seen' = (corrupt_seen \/ buf' \notin KernelBuffers)
    /\ next' = 0
    /\ answers' = EmptyMap
    /\ pc' = "walk"
    /\ UNCHANGED << backend, first, latest, last, oob, localsB >>

RescanA == BeginA("rescan")
RefreshA == BeginA("refresh")

\* One iteration of `while next < lim`.
WalkAStopsAtUnresolved ==
    /\ pc = "walk"
    /\ fetch = "ok"
    /\ next < Len(buf)
    /\ \E msglen \in ReadCell(next + OffMsglen), type \in ReadCell(next + OffType) :
         /\ IF type # RTM_IFINFO2
            THEN /\ last' = Event("other", NullName, << >>, << >>, next, msglen)
                 /\ oob' = (oob \/ next + OffType >= Len(buf))
                 /\ next' = next + msglen
                 /\ UNCHANGED << interfaces, latest >>
            ELSE \E idx \in ReadCell(next + OffIndex) :
                 \E pname \in if_indextoname(idx) :
                   IF pname = NullName
                   THEN /\ last' = Event("unresolved", NullName, << >>, << >>, next, msglen)
                        /\ oob' = (oob \/ next + OffIndex >= Len(buf))
                        /\ next' = Len(buf)
                        /\ UNCHANGED << interfaces, latest >>
                   ELSE \E cell \in ReadCell(next + OffData) :
                        LET data == DataOf(cell) IN
                          /\ oob' = (oob \/ next + OffData >= Len(buf))
                          /\ next' = next + msglen
                          /\ latest' = MapPut(latest, pname, CountersA(data))
                          /\ IF pname \in DOMAIN interfaces
                             THEN /\ interfaces' = MapPut(interfaces, pname,
                                                      UpdateA(interfaces[pname], data))
                                  /\ last' = Event("update", pname, CountersA(data),
                                                   Current(interfaces[pname]), next, msglen)
                             ELSE /\ interfaces' = MapPut(interfaces, pname, InsertA(data))
                                  /\ last' = Event("insert", pname, CountersA(data),
                                                   << >>, next, msglen)
    /\ answers' = MapPut(answers, next, last')
    /\ UNCHANGED << backend, first, corrupt_seen, pc, op, buf, fetch, pre, localsB >>
WalkA ==
    /\ pc = "walk"
    /\ fetch = "ok"
    /\ next < Len(buf)
    /\ \E msglen \in ReadCell(next + OffMsglen), type \in ReadCell(next + OffType) :
         /\ next' = next + msglen
         /\ IF type # RTM_IFINFO2
            THEN /\ last' = Event("other", NullName, << >>, << >>, next, msglen)
                 /\ oob' = (oob \/ next + OffType >= Len(buf))
                 /\ UNCHANGED << interfaces, latest >>
            ELSE \E idx \in ReadCell(next + OffIndex) :
                 \E pname \in if_indextoname(idx) :
                   IF pname = NullName
                   THEN /\ last' = Event("unresolved", NullName, << >>, << >>, next, msglen)
                        /\ oob' = (oob \/ next + OffIndex >= Len(buf))
                        /\ UNCHANGED << interfaces, latest >>
                   ELSE \E cell \in ReadCell(next + OffData) :
                        LET data == DataOf(cell) IN
                          /\ oob' = (oob \/ next + OffData >= Len(buf))
                          /\ latest' = MapPut(latest, pname, CountersA(data))
                          /\ IF pname \in DOMAIN interfaces
                             THEN /\ interfaces' = MapPut(interfaces, pname,
                                                      UpdateA(interfaces[pname], data))
                                  /\ last' = Event("update", pname, CountersA(data),
                                                   Current(interfaces[pname]), next, msglen)
                             ELSE /\ interfaces' = MapPut(interfaces, pname, InsertA(data))
                                  /\ last' = Event("insert", pname, CountersA(data),
                                                   << >>, next, msglen)
    /\ answers' = MapPut(answers, next, last')
    /\ UNCHANGED << backend, first, corrupt_seen, pc, op, buf, fetch, pre, localsB >>

\* The loop is over (or update_networks returned early): back in the caller.
FinishAEvictsUnreported ==
    /\ pc = "walk"
    /\ ~(fetch = "ok" /\ next < Len(buf))
    /\ interfaces' = Retain([n \in DOMAIN interfaces |->
                               [interfaces[n] EXCEPT !.updated =
                                    interfaces[n].updated /\ n \in DOMAIN latest]])
    /\ pc' = "done"
    /\ last' = NoEvent
    /\ UNCHANGED << backend, first, corrupt_seen, op, fetch, pre, latest, oob, localsA, localsB >>
FinishA ==
    /\ pc = "walk"
    /\ ~(fetch = "ok" /\ next < Len(buf))
    /\ interfaces' = IF op = "rescan" THEN Retain(interfaces) ELSE interfaces
    /\ pc' = "done"
    /\ last' = NoEvent
    /\ UNCHANGED << backend, first, corrupt_seen, op, fetch, pre, latest, oob, localsA, localsB >>

\* ------------------------------------------------- backend B operations
\* refresh_networks_list when GetIfTable2(&mut table) != NO_ERROR: return.
RescanFailClearsFirstB ==
    /\ backend = "B"
    /\ pc = "idle"
    /\ op' = "rescan"
    /\ pre' = interfaces
    /\ fetch' = "table_failed"
    /\ interfaces' = Retain(ClearMarkers(interfaces))
    /\ pc' = "done"
    /\ UNCHANGED << backend, first, corrupt_seen, latest, last, localsA, localsB >>
RescanFailB ==
    /\ backend = "B"
    /\ pc = "idle"
    /\ op' = "rescan"
    /\ pre' = interfaces
    /\ fetch' = "table_failed"
    /\ pc' = "done"
    /\ UNCHANGED << backend, first, corrupt_seen, interfaces, latest, last, localsA, localsB >>

\* refresh_networks_list when the table was fetched: the markers are
\* cleared and the first loop runs.
RescanB ==
    /\ backend = "B"
    /\ pc = "idle"
    /\ op' = "rescan"
    /\ pre' = interfaces
    /\ fetch' = "ok"
    /\ \E t \in Tables :
         LET p1 == Pass1(t, 0, EmptyMap, << >>) IN
           /\ table' = t
           /\ groups' = p1.groups
           /\ indexes' = p1.indexes
    /\ interfaces' = ClearMarkers(interfaces)
    /\ ipos' = 0
    /\ pc' = "pass2"
    /\ UNCHANGED << backend, first, corrupt_seen, latest, last, todo, freed, rows_committed, entry, localsA >>

\* One iteration of `for (i, id) in indexes`.
Pass2B ==
    /\ pc = "pass2"
    /\ ipos < Len(indexes)
    /\ ipos' = ipos + 1
    /\ LET i == indexes[ipos + 1][1]
           id == indexes[ipos + 1][2]
           ptr == table[i + 1]
           pos == AliasPos(ptr.Alias)
           interface_name == from_utf16(SubSeq(ptr.Alias, 1, pos))
       IN  IF InSharedGroup(groups, id)
           THEN /\ last' = Event("grouped", NullName, << >>, << >>, i, 0)
                /\ pc' = pc
                /\ UNCHANGED << interfaces, latest, rows_committed >>
           ELSE IF ~interface_name.ok
           THEN /\ last' = Event("undecodable", NullName, << >>, << >>, i, 0)
                /\ pc' = pc
                /\ UNCHANGED << interfaces, latest, rows_committed >>
           ELSE LET name == interface_name.s IN
                \E overflow_checks \in BOOLEAN :
                  IF overflow_checks /\ RowOverflows(ptr)
                  THEN /\ pc' = "panicked"
                       /\ last' = Event("panic", name, << >>, << >>, i, 0)
                       /\ interfaces' =
                            IF name \in DOMAIN interfaces
                            THEN MapPut(interfaces, name,
                                        RotateBPanicked(interfaces[name], ptr))
                            ELSE interfaces
                       /\ UNCHANGED << latest, rows_committed >>
                  ELSE /\ pc' = pc
                       /\ latest' = MapPut(latest, name, CountersB(ptr))
                       /\ rows_committed' = rows_committed \cup {i}
                       /\ IF name \in DOMAIN interfaces
                          THEN /\ interfaces' = MapPut(interfaces, name,
                                                   UpdateB(interfaces[name], ptr))
                               /\ last' = Event("update", name, CountersB(ptr),
                                                Current(interfaces[name]), i, 0)
                          ELSE /\ interfaces' = MapPut(interfaces, name, InsertB(ptr))
                               /\ last' = Event("insert", name, CountersB(ptr),
                                                << >>, i, 0)
    /\ UNCHANGED << backend, first, corrupt_seen, op, fetch, pre, table, groups, indexes, todo,
                    freed, entry, localsA >>

\* After the second loop: FreeMibTable(table), then the eviction.
FinishRescanB ==
    /\ pc = "pass2"
    /\ ipos >= Len(indexes)
    /\ freed' = freed + 1
    /\ interfaces' = Retain(interfaces)
    /\ pc' = "done"
    /\ last' = NoEvent
    /\ UNCHANGED << backend, first, corrupt_seen, op, fetch, pre, latest, table, groups, indexes,
                    ipos, todo, rows_committed, entry, localsA >>

\* refresh: the loop over self.interfaces.iter_mut() starts.
RefreshB ==
    /\ backend = "B"
    /\ pc = "idle"
    /\ op' = "refresh"
    /\ pre' = interfaces
    /\ fetch' = "ok"
    /\ todo' = DOMAIN interfaces
    /\ pc' = "refresh"
    /\ UNCHANGED << backend, first, corrupt_seen, interfaces, latest, last, table, groups, indexes,
                    ipos, freed, rows_committed, entry, localsA >>

\* One iteration of refresh's loop, in the map's arbitrary order:
\* GetIfEntry2 by the stored handle fails, or fills entry.
RefreshStepB ==
    /\ pc = "refresh"
    /\ \E name \in todo :
         /\ todo' = todo \ {name}
         /\ \/ /\ last' = Event("unresolved", name, << >>, << >>,
                                interfaces[name].id, 0)
               /\ pc' = pc
               /\ UNCHANGED << interfaces, latest, entry >>
            \/ \E got \in StatsSamples, overflow_checks \in BOOLEAN :
                 /\ entry' = got
                 /\ IF overflow_checks /\ RowOverflows(got)
                    THEN /\ pc' = "panicked"
                         /\ last' = Event("panic", name, << >>, << >>,
                                          interfaces[name].id, 0)
                         /\ interfaces' = MapPut(interfaces, name,
                                             RotateBPanicked(interfaces[name], got))
                         /\ UNCHANGED latest
                    ELSE /\ pc' = pc
                         /\ latest' = MapPut(latest, name, CountersB(got))
                         /\ interfaces' = MapPut(interfaces, name,
                                             RotateB(interfaces[name], got))
                         /\ last' = Event("update", name, CountersB(got),
                                          Current(interfaces[name]),
                                          interfaces[name].id, 0)
    /\ UNCHANGED << backend, first, corrupt_seen, op, fetch, pre, table, groups, indexes, ipos,
                    freed, rows_committed, localsA >>

\* refresh's loop is over.
FinishRefreshB ==
    /\ pc = "refresh"
    /\ todo = {}
    /\ pc' = "done"
    /\ last' = NoEvent
    /\ UNCHANGED << backend, first, corrupt_seen, op, interfaces, fetch, pre, latest, localsA, localsB >>

\* refresh_networks_list is called again right after a full rescan that went
\* through, and the kernel returns the buffer it returned before.
RescanAgainA ==
    /\ backend = "A"
    /\ pc = "done"
    /\ op = "rescan"
    /\ fetch = "ok"
    /\ ~first.again
    /\ first' = [again |-> TRUE, answers |-> answers]
    /\ pre' = interfaces
    /\ interfaces' = ClearMarkers(interfaces)
    /\ next' = 0
    /\ answers' = EmptyMap
    /\ latest' = EmptyMap
    /\ last' = NoEvent
    /\ oob' = FALSE
    /\ pc' = "walk"
    /\ UNCHANGED << backend, corrupt_seen, op, fetch, buf, localsB >>

\* The same on the table API: GetIfTable2 returns the table it returned
\* before, and the first loop runs over it again.
RescanAgainB ==
    /\ backend = "B"
    /\ pc = "done"
    /\ op = "rescan"
    /\ fetch = "ok"
    /\ ~first.again
    /\ first' = [again |-> TRUE, answers |-> EmptyMap]
    /\ pre' = interfaces
    /\ interfaces' = ClearMarkers(interfaces)
    /\ LET p1 == Pass1(table, 0, EmptyMap, << >>) IN
          /\ groups' = p1.groups
          /\ indexes' = p1.indexes
    /\ ipos' = 0
    /\ freed' = 0
    /\ rows_committed' = {}
    /\ latest' = EmptyMap
    /\ last' = NoEvent
    /\ pc' = "pass2"
    /\ UNCHANGED << backend, corrupt_seen, op, fetch, table, todo, entry, localsA >>

\* The operation returns: its locals are dropped.
Return ==
    /\ pc = "done"
    /\ pc' = "idle"
    /\ op' = "none"
    /\ fetch' = "none"
    /\ pre' = EmptyMap
    /\ latest' = EmptyMap
    /\ last' = NoEvent
    /\ buf' = << >>
    /\ next' = 0
    /\ oob' = FALSE
    /\ table' = << >>
    /\ groups' = EmptyMap
    /\ indexes' = << >>
    /\ ipos' = 0
    /\ todo' = {}
    /\ freed' = 0
    /\ rows_committed' = {}
    /\ entry' = NoEntry
    /\ answers' = EmptyMap
    /\ first' = NoFirst
    /\ UNCHANGED << backend, corrupt_seen, interfaces >>

\* Networks::new()
Start ==
    /\ pc = "idle"
    /\ op = "none"
    /\ interfaces = EmptyMap
    /\ buf = << >>
    /\ next = 0
    /\ table = << >>
    /\ groups = EmptyMap
    /\ indexes = << >>
    /\ ipos = 0
    /\ todo = {}
    /\ freed = 0
    /\ fetch = "none"
    /\ pre = EmptyMap
    /\ latest = EmptyMap
    /\ last = NoEvent
    /\ oob = FALSE
    /\ rows_committed = {}
    /\ corrupt_seen = FALSE
    /\ answers = EmptyMap
    /\ first = NoFirst
    /\ entry = NoEntry

\* The backend is chosen when the crate is built.
InitA == backend = "A" /\ Start
InitB == backend = "B" /\ Start
Init == backend \in {"A", "B"} /\ Start

NextA == RescanA \/ RefreshA \/ WalkA \/ FinishA \/ Return

NextB ==
    \/ RescanFailB
    \/ RescanB
    \/ Pass2B
    \/ FinishRescanB
    \/ RefreshB
    \/ RefreshStepB
    \/ FinishRefreshB
    \/ Return

Next ==
    \/ RescanA
    \/ RefreshA
    \/ WalkA
    \/ FinishA
    \/ RescanFailB
    \/ RescanB
    \/ Pass2B
    \/ FinishRescanB
    \/ RefreshB
    \/ RefreshStepB
    \/ FinishRefreshB
    \/ Return

\* Either backend; the routing-socket backend; the table-API backend.
Spec == Init /\ [][Next]_vars
SpecA == InitA /\ [][NextA]_vars
SpecB == InitB /\ [][NextB]_vars

\* Either backend, with callers that may repeat a full rescan while the
\* system's answers stay what they were.
NextTwice ==
    \/ RescanA
    \/ RefreshA
    \/ WalkA
    \/ FinishA
    \/ RescanAgainA
    \/ RescanFailB
    \/ RescanB
    \/ Pass2B
    \/ FinishRescanB
    \/ RefreshB
    \/ RefreshStepB
    \/ FinishRefreshB
    \/ RescanAgainB
    \/ Return
SpecTwice == Init /\ [][NextTwice]_vars

\* The routing-socket backend with the thread inside update_networks kept
\* running: an enabled loop iteration, or the loop's exit, is eventually taken.
SpecALive == InitA /\ [][NextA]_vars /\ WF_vars(WalkA) /\ WF_vars(FinishA)

\* =============================================================== claims
Zero6 == << 0, 0, 0, 0, 0, 0 >>
Max(a, b) == IF a >= b THEN a ELSE b
Finished(o) == pc = "done" /\ op = o
SysctlFailed == fetch \in {"probe_failed", "fill_failed"}
SameCounters(d, e) == Current(d) = Current(e) /\ Previous(d) = Previous(e)

\* C1: on the routing-socket backend, a full rescan whose length probe or
\* buffer fill fails leaves the registry as it was: the same names, and for
\* each the same current and previous counters.  (Stated for runs whose
\* buffers were all well-formed, so that none of it rests on a corrupt one.)
C1_FailedSysctlKeepsRegistry ==
    (backend = "A" /\ Finished("rescan") /\ SysctlFailed /\ ~corrupt_seen) =>
        /\ DOMAIN interfaces = DOMAIN pre
        /\ \A n \in DOMAIN pre : SameCounters(interfaces[n], pre[n])

\* C2: on both backends, the names registered when a counters-only refresh
\* returns are the names registered when it was called.  (Stated for runs
\* whose buffers were all well-formed.)
C2_RefreshKeepsMembership ==
    (Finished("refresh") /\ ~corrupt_seen) => DOMAIN interfaces = DOMAIN pre

\* C3: when a full rescan or a refresh returns, every entry registered
\* before and after the call for which the call stored counters has
\* previous = the current of before the call and current = the counters
\* last reported for it, also when the name was reported more than once.
\* (Stated for runs whose buffers were all well-formed.)
C3_RotatesOncePerCall ==
    (pc = "done" /\ ~corrupt_seen) =>
        \A n \in (DOMAIN pre) \cap (DOMAIN interfaces) \cap (DOMAIN latest) :
            /\ Previous(interfaces[n]) = Current(pre[n])
            /\ Current(interfaces[n]) = latest[n]

\* C4: right after a scan inserted an unregistered name observed with
\* counters c, every delta accessor of the entry returns 0 and every total
\* accessor the corresponding component of c.
C4_InsertedEntryHasZeroDelta ==
    last.kind = "insert" =>
        /\ last.name \in DOMAIN interfaces
        /\ Deltas(interfaces[last.name]) = Zero6
        /\ Totals(interfaces[last.name]) = last.c

C4_Witness ==
    /\ last.kind = "insert"
    /\ \A k \in 1..6 : last.c[k] > 0
    /\ DOMAIN pre # {}

\* C5: right after a registered entry holding counters c1 was observed
\* again with counters c2, every delta accessor returns max(c2 - c1, 0),
\* never more than c2, and every total accessor returns c2.
C5_DeltaIsClampedDifference ==
    last.kind = "update" =>
        \A k \in 1..6 :
            /\ Deltas(interfaces[last.name])[k]
                   = Max(last.c[k] - last.before[k], 0)
            /\ Deltas(interfaces[last.name])[k] <= last.c[k]
            /\ Totals(interfaces[last.name])[k] = last.c[k]

C5_Witness ==
    /\ last.kind = "update"
    /\ \E k \in 1..6 : last.c[k] < last.before[k]
    /\ \E k \in 1..6 : last.c[k] > last.before[k]

\* C6: when a full rescan whose enumeration succeeded returns, the
\* registered names are exactly the names it committed.
C6_RescanKeepsExactlyTheCommitted ==
    (Finished("rescan") /\ fetch = "ok") => DOMAIN interfaces = DOMAIN latest

C6_Witness ==
    /\ Finished("rescan")
    /\ fetch = "ok"
    /\ \E n \in DOMAIN pre : n \notin DOMAIN interfaces
    /\ \E n \in DOMAIN pre : n \in DOMAIN interfaces
    /\ \A n \in DOMAIN pre : pre[n].updated

\* C7: on the table-API backend, a full rescan whose table fetch fails
\* leaves the registry as it was (names, handles, counters, markers) and
\* releases no table.
C7_FailedFetchKeepsRegistry ==
    (backend = "B" /\ Finished("rescan") /\ fetch = "table_failed") =>
        /\ interfaces = pre
        /\ freed = 0

C7_Witness ==
    /\ backend = "B"
    /\ Finished("rescan")
    /\ fetch = "table_failed"
    /\ Cardinality(DOMAIN pre) = 2

\* The rows of the table, numbered as in the code.
RowIds == 0 .. (Len(table) - 1)
SharesKey(i, j) == i # j /\ GroupId(table[i + 1]) = GroupId(table[j + 1])
\* The three exclusions by link speed, connection state and address.
FilteredOut(r) ==
    \/ (r.TransmitLinkSpeed = 0 /\ r.ReceiveLinkSpeed = 0)
    \/ r.MediaConnectState = MediaConnectStateDisconnected
    \/ r.PhysicalAddressLength = 0

\* C8 as stated: no row is committed when another row of the whole table
\* has its grouping key.
C8_NoCommitWhenKeyShared ==
    \A i \in rows_committed : \A j \in RowIds : ~SharesKey(i, j)

\* C8 as amended: no row is committed when another row that passes the
\* speed, state and address filter has its grouping key.
C8_NoCommitWhenKeySharedByKeptRow ==
    \A i \in rows_committed :
        \A j \in RowIds : SharesKey(i, j) => FilteredOut(table[j + 1])

C8_Witness ==
    /\ Finished("rescan")
    /\ Len(table) = 3
    /\ \A j \in RowIds : ~FilteredOut(table[j + 1])
    /\ SharesKey(0, 2)
    /\ rows_committed = {1}

\* The name a row's Alias decodes to, as a set: empty when it does not.
RowNames(r) ==
    LET n == from_utf16(SubSeq(r.Alias, 1, AliasPos(r.Alias)))
    IN  IF n.ok THEN {n.s} ELSE {}

\* C9: a row with both link speeds zero, or disconnected, or without a
\* physical address is never committed, and a registered interface whose
\* only row is such a row is gone when the rescan returns.
C9_FilteredRowsNeverCommitted ==
    /\ \A i \in rows_committed : ~FilteredOut(table[i + 1])
    /\ (Finished("rescan") /\ fetch = "ok") =>
         \A n \in DOMAIN pre :
            ( /\ \E j \in RowIds : n \in RowNames(table[j + 1])
              /\ \A j \in RowIds :
                    n \in RowNames(table[j + 1]) => FilteredOut(table[j + 1]) )
            => n \notin DOMAIN interfaces

C9_Witness ==
    /\ Finished("rescan")
    /\ fetch = "ok"
    /\ rows_committed # {}
    /\ \E n \in DOMAIN pre :
         /\ n \notin DOMAIN interfaces
         /\ \E j \in RowIds :
              /\ n \in RowNames(table[j + 1])
              /\ table[j + 1].PhysicalAddressLength = 0
              /\ table[j + 1].TransmitLinkSpeed > 0
              /\ table[j + 1].MediaConnectState = MediaConnectStateConnected
              /\ \A k \in RowIds \ {j} : n \notin RowNames(table[k + 1])

\* C10: the walk reads no cell at an offset >= len, and a record whose
\* declared length exceeds the rest of the buffer is not examined and
\* changes nothing.
C10_WalkStaysInBuffer ==
    backend = "A" =>
        /\ ~oob
        /\ last.kind \in {"insert", "update", "unresolved"} =>
               last.at + last.msglen <= Len(buf)

\* C11: on the routing-socket backend the walk over the record buffer ends
\* for every buffer the kernel can return, a record of declared length zero
\* included: a scan that has entered the loop eventually leaves it.
C11_WalkTerminates == (pc = "walk") ~> (pc = "done")

\* C12: a full rescan is idempotent on unchanged system state: when a full
\* rescan that went through is repeated at once and the system answers the
\* same (the same buffer with the same names resolved, or the same table),
\* the second leaves the names the first left, and every entry then has its
\* previous counters equal to its current ones, so all six deltas are 0.
\* (Stated for runs whose buffers were all well-formed.)
C12_RescanTwiceIsIdempotent ==
    (Finished("rescan") /\ fetch = "ok" /\ first.again
       /\ answers = first.answers /\ ~corrupt_seen) =>
        /\ DOMAIN interfaces = DOMAIN pre
        /\ \A n \in DOMAIN interfaces :
             /\ Previous(interfaces[n]) = Current(interfaces[n])
             /\ Deltas(interfaces[n]) = Zero6

\* C13: on the table-API backend a full rescan whose table fetch succeeded
\* releases the table exactly once, after the last row was read, however
\* its run through the two row loops ends; one whose fetch failed never
\* releases it.
C13_TableReleasedExactlyOnce ==
    (backend = "B" /\ op = "rescan") =>
        /\ freed <= 1
        /\ fetch = "table_failed" => freed = 0
        /\ pc = "pass2" => freed = 0
        /\ (fetch = "ok" /\ pc \in {"done", "panicked"}) => freed = 1

\* C14: on either backend an entry leaves the registry only during a full
\* rescan: no step of a counters-only refresh removes a name, so during and
\* after a refresh every name registered before it is still registered,
\* whether or not the system still reports that interface.
C14_OnlyRescanEvicts ==
    /\ [](op = "refresh" => DOMAIN pre \subseteq DOMAIN interfaces)
    /\ [][(\E n \in DOMAIN interfaces : n \notin DOMAIN interfaces')
              => op = "rescan"]_vars

C14_Witness ==
    /\ Finished("refresh")
    /\ fetch = "ok"
    /\ latest # EmptyMap
    /\ \E n \in DOMAIN pre :
         /\ n \notin DOMAIN latest
         /\ n \in DOMAIN interfaces

\* C15: on the table-API backend a counters-only refresh leaves every entry
\* whose lookup by handle failed with its six current and six previous
\* values as they were, and rotates every entry whose lookup succeeded
\* (previous := old current, current := the looked-up counters); a failed
\* lookup never ends the call early, so when the call is over every entry
\* has been looked up, whatever the order.
C15_FailedLookupSkipsOnlyThatEntry ==
    (backend = "B" /\ op = "refresh") =>
        /\ \A n \in DOMAIN pre \ todo :
             IF n \in DOMAIN latest
             THEN /\ Previous(interfaces[n]) = Current(pre[n])
                  /\ Current(interfaces[n]) = latest[n]
             ELSE IF last.kind = "panic" /\ last.name = n
             THEN /\ Previous(interfaces[n]) = Current(pre[n])
                  /\ Current(interfaces[n]) = CountersB(entry)
             ELSE SameCounters(interfaces[n], pre[n])
        /\ pc \in {"done", "panicked"} => todo = {}

\* C16: on the routing-socket backend a record whose name cannot be
\* resolved, and a record of another type, change nothing in the registry
\* (no entry inserted, no counter or marker written); the loop goes on
\* behind the record, at the cursor advanced by its declared length, with
\* the registry a scan without that record would have at that point.
C16_SkippedRecordChangesNothing ==
    [][(backend = "A" /\ pc = "walk" /\ pc' = "walk"
          /\ last'.kind \in {"unresolved", "other"})
         => /\ interfaces' = interfaces
            /\ latest' = latest
            /\ next' = next + last'.msglen
            /\ last'.at = next]_vars

C16_Witness ==
    /\ backend = "A"
    /\ pc = "walk"
    /\ buf \in KernelBuffers
    /\ Len(buf) = 2 * Msghdr2Cells
    /\ buf[OffType + 1] = RTM_IFINFO2
    /\ 0 \in DOMAIN answers
    /\ answers[0].kind = "unresolved"
    /\ last.kind \in {"insert", "update"}
    /\ last.at = Msghdr2Cells
    /\ DOMAIN latest = {last.name}

\* C17: on the table-API backend the packet counters stored for a row (full
\* rescan) or for a looked-up entry (refresh) are the sums InUcastPkts +
\* InNUcastPkts and OutUcastPkts + OutNUcastPkts as numbers, whatever
\* 64-bit values the system reports: no sum wraps around, and none ends the
\* operation before it is through.
C17_PacketsAreExactSums ==
    backend = "B" =>
        /\ pc # "panicked"
        /\ last.kind \in {"insert", "update"} =>
             LET ptr == IF op = "rescan" THEN table[last.at + 1] ELSE entry
             IN  /\ interfaces[last.name].packets_in
                       = ptr.InUcastPkts + ptr.InNUcastPkts
                 /\ interfaces[last.name].packets_out
                       = ptr.OutUcastPkts + ptr.OutNUcastPkts

\* C18: between operations every registered entry has its marker set: an
\* entry's marker is false only while a full rescan is running (or was
\* cut short inside its loop), never when an operation has returned.
C18_MarkersSetBetweenOperations ==
    /\ pc \in {"idle", "done"} => \A n \in DOMAIN interfaces : interfaces[n].updated
    /\ \A n \in DOMAIN interfaces :
         ~interfaces[n].updated =>
             (op = "rescan" /\ pc \in {"walk", "pass2", "panicked"})

C18_Witness ==
    /\ Finished("rescan")
    /\ fetch = "ok"
    /\ \E n \in DOMAIN pre : n \in DOMAIN interfaces /\ n \in DOMAIN latest
    /\ \E n \in DOMAIN interfaces : n \notin DOMAIN pre

\* C19: on the table-API backend the handle of an entry is the handle of
\* the row that inserted it, and no step changes it while the name stays
\* registered: not a later rescan that commits a row of the same name with
\* another handle, and not a refresh, whose lookups are made by that handle.
C19_HandleFixedAtInsertion ==
    /\ []((backend = "B" /\ last.kind = "insert")
            => interfaces[last.name].id = table[last.at + 1].InterfaceLuid)
    /\ []((backend = "B" /\ op = "refresh" /\ last.kind # "none")
            => last.at = interfaces[last.name].id)
    /\ [][backend = "B" =>
             \A n \in DOMAIN interfaces \cap DOMAIN interfaces' :
                 interfaces'[n].id = interfaces[n].id]_vars

C19_Witness ==
    /\ backend = "B"
    /\ pc = "pass2"
    /\ last.kind = "update"
    /\ last.name \in DOMAIN pre
    /\ table[last.at + 1].InterfaceLuid # interfaces[last.name].id

====
